---------------------------- MODULE Spec2Model ----------------------------
(***************************************************************************)
(* Report assembly of mne-bids-pipeline,                                   *)
(* src/mne_bids_pipeline/scripts/report/_01_make_reports.py.               *)
(*                                                                         *)
(* main() starts one run_report task per (subject, session) pair on the    *)
(* parallel backend, collects their logs, saves the logs and then, unless  *)
(* the task is a resting-state task, runs run_report_average once per      *)
(* session.  run_report threads one report document through the stages     *)
(* run_report_preprocessing, run_report_sensor, run_report_source and      *)
(* add_system_info and saves it.  run_report_average builds the            *)
(* grand-average document (event counts, evoked averages, decoding         *)
(* statistics, morphed source estimates, system info) and saves it.        *)
(*                                                                         *)
(* A document is the sequence of its content items; an item is a record    *)
(* [title, tag].  The artifact store is read-only and is observed lazily:  *)
(* the presence of an artifact is chosen at the step that first reads it.  *)
(***************************************************************************)
EXTENDS Naturals, Integers, Sequences, FiniteSets, TLC

\* Bounds of the model.
MaxTasks == 2
MaxContrasts == 2
MaxClusters == 2
MaxScoreVectors == 3
MaxScores == 4

VARIABLES
    cfg,        \* the configuration (module `config`), fixed for a run of main
    mainPc,     \* position of main()
    tasks,      \* the run_report task of every (subject, session) pair
    logs,       \* the list returned by parallel(...): one log per task
    sesIdx,     \* index of the session whose grand average is next / running
    avg,        \* the running run_report_average call
    avgLogs,    \* outcome of every finished run_report_average call
    reports,    \* the persisted reports (the report sink): set of report ids
    exit,       \* exit status of the batch process, "running" until main ends
    matplotlib, \* the backend of matplotlib and the one _agg_backend has saved
    plot        \* a call of the full-epochs plot on score vectors of any length

vars ==
    <<cfg, mainPc, tasks, logs, sesIdx, avg, avgLogs, reports, exit,
      matplotlib, plot>>

-----------------------------------------------------------------------------
(* Configuration *)

\* cfg.conditions of the modelled study and the names of its contrasts.
Conditions == <<"A", "B">>
ContrastNames == <<"A-B">>

\* cluster_permutation_p_threshold and the p-values of the stored clusters,
\* in hundredths: a p-value below the threshold 0.05 and one equal to it.
\* get_config copies the threshold as the configuration file gives it, so it
\* can also lie outside the open interval (0, 1): 0 stands for such a value.
Thresholds == {0, 5}
PValues == {4, 5}

\* The (decode, decoding_contrasts, decoding_time_generalization) settings:
\* decoding switched off, decoding without contrasts, and decoding of
\* MaxContrasts contrasts with and without time generalization.
DecodingSettings ==
    { <<FALSE, MaxContrasts, FALSE>>, <<TRUE, 0, FALSE>>,
      <<TRUE, MaxContrasts, FALSE>>, <<TRUE, MaxContrasts, TRUE>> }

\* The (subjects, sessions) counts of at most MaxTasks pairs: up to MaxTasks
\* subjects with one session, or with two sessions each.
Grids == { g \in (1..MaxTasks) \X {1, 2} : g[1] * g[2] <= MaxTasks }

\* cfg.time_frequency_conditions and cfg.spatial_filter.
TimeFrequencySettings == {<<>>, <<"A">>}
SpatialFilters == {"none", "ssp"}

\* The configurations.  The time-frequency conditions and the spatial filter
\* are varied in the studies of a single (subject, session) pair; the studies
\* of several pairs have no time-frequency conditions, no spatial filter and
\* the threshold 0.05.
AllConfigs ==
    { [nSubjects |-> g[1], nSessions |-> g[2], task_is_rest |-> r,
       decode |-> d[1], nContrasts |-> d[2],
       decoding_time_generalization |-> d[3],
       cluster_permutation_p_threshold |-> th,
       time_frequency_conditions |-> tf, spatial_filter |-> sf] :
        g \in Grids, r \in BOOLEAN, d \in DecodingSettings,
        th \in Thresholds, tf \in TimeFrequencySettings,
        sf \in SpatialFilters }
Configs ==
    { c \in AllConfigs :
        c.nSubjects * c.nSessions > 1 =>
            /\ c.time_frequency_conditions = <<>>
            /\ c.spatial_filter = "none"
            /\ c.cluster_permutation_p_threshold = 5 }

\* get_subjects(config) and get_sessions(config).
get_subjects == 1..cfg.nSubjects
get_sessions == 1..cfg.nSessions

\* itertools.product(get_subjects(config), get_sessions(config))
TaskIds == get_subjects \X get_sessions

\* What a stage can find for an optional artifact of its subject (empty-room
\* recording, ECG and EOG epochs of the SSP, noise covariance): present or
\* absent in the study of a single pair, present in the studies of several.
OptionalPresence == IF Cardinality(TaskIds) = 1 THEN BOOLEAN ELSE {TRUE}

\* `cfg.decode and cfg.decoding_contrasts`
DecodingEnabled == cfg.decode /\ cfg.nContrasts > 0

\* An item of general content, and an item of decoding contrast c >= 1.
Item(title, tag) == [title |-> title, tag |-> tag, contrast |-> 0]
ContrastItem(title, c) == [title |-> title, tag |-> "contrast", contrast |-> c]

SeqRange(s) == { s[i] : i \in 1..Len(s) }
Titles(doc) == { doc[i].title : i \in 1..Len(doc) }

\* [f(1), ..., f(n)] flattened: the concatenation of the sequences f[i].
RECURSIVE Flatten(_, _)
Flatten(f, n) == IF n = 0 THEN <<>> ELSE Flatten(f, n - 1) \o f[n]

-----------------------------------------------------------------------------
(* Subject-level report: run_report and its stages *)

\* The states of the report assembler, in order.
Stages == <<"Preprocessing", "Sensor", "Source", "Finalized">>

\* A task that main has handed to the parallel backend and that has not
\* started yet.
\* Besides its position and its document a task holds: the stages it has
\* started (ran), what it found for the coregistration and the noise
\* covariance (trans, cov), the figures it has created and not closed (open),
\* the optional content it left out because the artifact was absent
\* (omitted) and the omissions it logged a message about (logged).
QueuedTask ==
    [pc |-> "Queued", doc |-> <<>>, ran |-> <<>>, trans |-> "unread",
     cov |-> "unread", open |-> {}, omitted |-> {}, logged |-> {}]

\* A task whose worker has returned its log to main.
JoinedTask == [QueuedTask EXCEPT !.pc = "Joined"]

\* _gen_empty_report: a document without content.
gen_empty_report(rec) == [rec EXCEPT !.pc = "Empty", !.doc = <<>>]

\* A stage that starts from an empty document whatever it is handed.
report_always_empty(rec) == gen_empty_report(rec)

\* The head of every stage, `if report is None: report = _gen_empty_report()':
\* a stage that is handed no document (the task holds none before run_report
\* has created it) creates an empty one; any other document is used as it is.
report_or_empty(rec) == IF rec.pc = "Queued" THEN gen_empty_report(rec) ELSE rec

\* failsafe_run that lets the exception escape: the task never ends.
failsafe_run_reraise(rec, stage) ==
    [rec EXCEPT !.pc = "Raised", !.doc = <<>>, !.ran = Append(@, stage)]

\* failsafe_run, on an exception that leaves run_report in `stage`: the
\* exception is caught at the task boundary, the document is dropped with the
\* frame of run_report, and the task ends with a log of the failure.
failsafe_run(rec, stage) ==
    [rec EXCEPT !.pc = "Failed", !.doc = <<>>, !.ran = Append(@, stage)]

\* The optional content of run_report_preprocessing: the empty-room
\* recording and, with cfg.spatial_filter == 'ssp', the SSP figure of each
\* kind whose epochs file exists.
SspKinds == <<"SSP: ECG", "SSP: EOG">>
PreprocessingOptional ==
    {"Empty-Room"}
    \cup (IF cfg.spatial_filter = "ssp" THEN SeqRange(SspKinds) ELSE {})

\* The items run_report_preprocessing adds when the artifacts of `absent' do
\* not exist: the filtered raw data, the empty-room recording, the events
\* (not for a resting-state task), the epochs before cleaning, the SSP
\* figures and the epochs after cleaning.
PreprocessingItems(absent) ==
    <<Item("Raw", "raw")>>
    \o (IF "Empty-Room" \in absent THEN <<>>
        ELSE <<Item("Empty-Room", "raw")>>)
    \o (IF cfg.task_is_rest THEN <<>> ELSE <<Item("Events", "events")>>)
    \o <<Item("Epochs (before cleaning)", "epochs")>>
    \o Flatten([i \in 1..Len(SspKinds) |->
                  IF cfg.spatial_filter = "ssp" /\ SspKinds[i] \notin absent
                  THEN <<Item(SspKinds[i], "ssp")>> ELSE <<>>],
               Len(SspKinds))
    \o <<Item("Epochs (after cleaning)", "epochs")>>

\* run_report_preprocessing, where `absent' are the optional artifacts that
\* do not exist: mne.read_epochs raises when the epochs are not readable
\* (epochsOk = FALSE).  The empty-room recording and the SSP epochs are
\* tested with exists() / is_file(); nothing is logged when they are absent.
\* Every SSP figure is closed after it is added.
run_report_preprocessing(rec, epochsOk, absent) ==
    IF ~epochsOk THEN failsafe_run(rec, "Preprocessing")
    ELSE [report_or_empty(rec) EXCEPT
                     !.pc = "Preprocessing",
                     !.doc = @ \o PreprocessingItems(absent),
                     !.omitted = @ \cup absent,
                     !.ran = Append(@, "Preprocessing")]

\* The evoked items of run_report_sensor: one per condition, then one per
\* contrast.
EvokedItems ==
    [i \in 1..Len(Conditions) |-> Item("Condition", Conditions[i])]
    \o [i \in 1..Len(ContrastNames) |-> Item("Contrast", ContrastNames[i])]

\* The decoding items of run_report_sensor: the full-epochs figure, then for
\* every decoding contrast the time-by-time figure and, with time
\* generalization, the generalization matrix.
SensorDecodingItems ==
    IF ~DecodingEnabled THEN <<>>
    ELSE <<Item("Full-epochs Decoding", "decoding")>>
         \o Flatten([c \in 1..cfg.nContrasts |->
                <<ContrastItem("Decoding performance over time", c)>>
                \o (IF cfg.decoding_time_generalization
                    THEN <<ContrastItem("Time generalization", c)>> ELSE <<>>)],
              cfg.nContrasts)

\* The time-frequency items of run_report_sensor: the power and the
\* inter-trial coherence of every time-frequency condition.
TfrPower(i) == Item("TFR Power", cfg.time_frequency_conditions[i])
TfrItc(i) == Item("TFR ITC", cfg.time_frequency_conditions[i])
TfrItems ==
    Flatten([i \in 1..Len(cfg.time_frequency_conditions) |->
                <<TfrPower(i), TfrItc(i)>>],
            Len(cfg.time_frequency_conditions))

\* The figures the time-frequency loop of run_report_sensor leaves open:
\* after fig_itc is added, plt.close is called on fig_power a second time,
\* never on fig_itc.
TfrOpenFigures ==
    { TfrItc(i) : i \in 1..Len(cfg.time_frequency_conditions) }

\* run_report_sensor without the raise: the decoding figures of a subject
\* whose score files are absent are left out.
run_report_sensor_skip(rec, scoresOk, covExists) ==
    [rec EXCEPT !.pc = "Sensor",
                !.cov = IF covExists THEN "present" ELSE "absent",
                !.doc = @ \o EvokedItems
                          \o (IF scoresOk THEN SensorDecodingItems ELSE <<>>)
                          \o TfrItems,
                !.open = @ \cup TfrOpenFigures,
                !.ran = Append(@, "Sensor")]

\* run_report_sensor.  The noise covariance is tested with exists(): without
\* it the evoked responses are added without whitening, and a message says
\* so.  With decoding enabled, loadmat raises when a score file of the
\* subject is absent (scoresOk = FALSE); every decoding figure is closed
\* after it is added.  Then the time-frequency figures are added.
run_report_sensor(rec, scoresOk, covExists) ==
    LET seen == [report_or_empty(rec) EXCEPT
                   !.cov = IF covExists THEN "present" ELSE "absent",
                   !.omitted = IF covExists THEN @
                               ELSE @ \cup {"Whitened evokeds"},
                   !.logged = IF covExists THEN @
                              ELSE @ \cup {"Whitened evokeds"}]
    IN  IF DecodingEnabled /\ ~scoresOk THEN failsafe_run(seen, "Sensor")
        ELSE [seen EXCEPT
                !.pc = "Sensor",
                !.doc = @ \o EvokedItems \o SensorDecodingItems \o TfrItems,
                !.open = @ \cup TfrOpenFigures,
                !.ran = Append(@, "Sensor")]

\* The names the loop of run_report_source walks: cfg.conditions extended by
\* the names of cfg.all_contrasts.
SourceConditions == Conditions \o ContrastNames

\* A loop that adds the source estimate of every name whose file exists.
StcItemsOfContrasts(stcs) ==
    Flatten([i \in 1..Len(SourceConditions) |->
                IF SourceConditions[i] \in stcs
                THEN <<Item("Source", SourceConditions[i])>> ELSE <<>>],
            Len(SourceConditions))

\* The source-estimate items of run_report_source: one per configured
\* condition whose left-hemisphere file exists (stcs: the set of names with
\* a file); the names of contrasts are passed over with `continue'.
StcItems(stcs) ==
    Flatten([i \in 1..Len(SourceConditions) |->
                IF SourceConditions[i] \notin SeqRange(Conditions) THEN <<>>
                ELSE IF SourceConditions[i] \in stcs
                THEN <<Item("Source", SourceConditions[i])>> ELSE <<>>],
            Len(SourceConditions))

SourceItems(stcs) ==
    <<Item("BEM", "bem"), Item("Sensor alignment", "trans"),
      Item("Noise covariance", "cov")>> \o StcItems(stcs)

\* The source estimates run_report_source leaves out: the conditions without
\* a file.  Nothing is logged about them.
SourceTitles == <<"Source: A", "Source: B">>
StcOmitted(stcs) ==
    { SourceTitles[i] :
        i \in { j \in 1..Len(Conditions) : Conditions[j] \notin stcs } }

\* run_report_source without the early return.
run_report_source_noskip(rec, transExists, renderOk, stcs) ==
    IF ~renderOk \/ rec.cov = "absent" THEN failsafe_run(rec, "Source")
    ELSE [rec EXCEPT !.pc = "Source",
                     !.doc = @ \o SourceItems(stcs),
                     !.trans = IF transExists THEN "present" ELSE "absent",
                     !.omitted = @ \cup StcOmitted(stcs),
                     !.open = {},
                     !.ran = Append(@, "Source")]

\* run_report_source: without a coregistration file (transExists = FALSE) a
\* message is logged and the document is returned as it came.  Otherwise the
\* BEM, the alignment and the noise covariance are rendered, which raises
\* when one of them cannot be rendered (renderOk = FALSE): add_covariance is
\* handed the path of the noise covariance without a test of its existence,
\* so it raises when the file is absent.  Then the source estimates whose
\* file exists are added and plt.close('all') closes every open figure.
run_report_source(rec, transExists, renderOk, stcs) ==
    IF ~transExists
    THEN [report_or_empty(rec) EXCEPT
                     !.pc = "Source", !.trans = "absent",
                     !.omitted = @ \cup {"Source space"},
                     !.logged = @ \cup {"Source space"},
                     !.ran = Append(@, "Source")]
    ELSE IF ~renderOk \/ rec.cov = "absent"
    THEN failsafe_run([rec EXCEPT !.trans = "present"], "Source")
    ELSE [report_or_empty(rec) EXCEPT
                     !.pc = "Source",
                     !.doc = @ \o SourceItems(stcs),
                     !.trans = "present",
                     !.omitted = @ \cup StcOmitted(stcs),
                     !.open = {},
                     !.ran = Append(@, "Source")]

\* add_system_info: the configuration file and the system information.
SystemInfoItems ==
    <<Item("Configuration file", "configuration"),
      Item("System information", "sysinfo")>>

\* add_system_info that adds nothing.
add_system_info_none(doc) == doc

\* add_system_info appends the two items to the document.
add_system_info(doc) == doc \o SystemInfoItems

\* The id under which a report is persisted: subject 0 stands for the
\* pseudo-subject 'average'.
ReportId(subject, session) == <<subject, session>>
AverageId(session) == <<0, session>>

\* A task has ended: its report is saved or its failure is caught.
Ended(rec) == rec.pc \in {"Saved", "Failed"}

\* A worker starts run_report for its pair: the empty report is created.
StartTask(t) ==
    /\ mainPc = "parallel"
    /\ tasks[t].pc = "Queued"
    /\ tasks' = [tasks EXCEPT ![t] = gen_empty_report(@)]
    /\ UNCHANGED <<cfg, matplotlib, plot,
                   mainPc, logs, sesIdx, avg, avgLogs, reports, exit>>

Preprocessing(t) ==
    /\ tasks[t].pc = "Empty"
    /\ \E epochsOk \in BOOLEAN,
          absent \in { a \in SUBSET PreprocessingOptional :
                         a # {} => FALSE \in OptionalPresence } :
         tasks' = [tasks EXCEPT
                     ![t] = run_report_preprocessing(@, epochsOk, absent)]
    /\ UNCHANGED <<cfg, matplotlib, plot,
                   mainPc, logs, sesIdx, avg, avgLogs, reports, exit>>

\* A sensor stage that writes the evoked responses to the documents of all
\* tasks.
SensorSharedDocument(t) ==
    /\ tasks[t].pc = "Preprocessing"
    /\ \E scoresOk \in BOOLEAN, covExists \in OptionalPresence :
         tasks' = [u \in TaskIds |->
                     IF u = t THEN run_report_sensor(tasks[u], scoresOk,
                                                     covExists)
                     ELSE [tasks[u] EXCEPT !.doc = @ \o EvokedItems]]
    /\ UNCHANGED <<cfg, matplotlib, plot,
                   mainPc, logs, sesIdx, avg, avgLogs, reports, exit>>

\* run_report_sensor called on the document that run_report_preprocessing
\* returned.
Sensor(t) ==
    /\ tasks[t].pc = "Preprocessing"
    /\ \E scoresOk \in BOOLEAN, covExists \in OptionalPresence :
         tasks' = [tasks EXCEPT
                     ![t] = run_report_sensor(@, scoresOk, covExists)]
    /\ UNCHANGED <<cfg, matplotlib, plot,
                   mainPc, logs, sesIdx, avg, avgLogs, reports, exit>>

\* run_report_source called on the document that run_report_preprocessing
\* returned.
SourceBeforeSensor(t) ==
    /\ tasks[t].pc = "Preprocessing"
    /\ \E transExists \in BOOLEAN, renderOk \in BOOLEAN,
          stcs \in SUBSET SeqRange(SourceConditions) :
         tasks' = [tasks EXCEPT
                     ![t] = run_report_source(@, transExists, renderOk, stcs)]
    /\ UNCHANGED <<cfg, matplotlib, plot,
                   mainPc, logs, sesIdx, avg, avgLogs, reports, exit>>

\* run_report_source called on the document that run_report_sensor returned.
Source(t) ==
    /\ tasks[t].pc = "Sensor"
    /\ \E transExists \in BOOLEAN, renderOk \in BOOLEAN,
          stcs \in SUBSET SeqRange(SourceConditions) :
         tasks' = [tasks EXCEPT
                     ![t] = run_report_source(@, transExists, renderOk, stcs)]
    /\ UNCHANGED <<cfg, matplotlib, plot,
                   mainPc, logs, sesIdx, avg, avgLogs, reports, exit>>

Finalize(t) ==
    /\ tasks[t].pc = "Source"
    /\ tasks' = [tasks EXCEPT ![t] =
                   [@ EXCEPT !.pc = "Finalized",
                             !.doc = add_system_info(@),
                             !.ran = Append(@, "Finalized")]]
    /\ UNCHANGED <<cfg, matplotlib, plot,
                   mainPc, logs, sesIdx, avg, avgLogs, reports, exit>>

\* A save that adds an item to the document it saves.
SaveThenAppend(t) ==
    /\ tasks[t].pc = "Finalized"
    /\ tasks' = [tasks EXCEPT ![t].pc = "Saved",
                              ![t].doc = <<Item("Saved", "footer")>> \o @]
    /\ reports' = reports \cup {ReportId(t[1], t[2])}
    /\ UNCHANGED <<cfg, matplotlib, plot,
                   mainPc, logs, sesIdx, avg, avgLogs, exit>>

\* report.save: the last statement of run_report.
Save(t) ==
    /\ tasks[t].pc = "Finalized"
    /\ tasks' = [tasks EXCEPT ![t].pc = "Saved"]
    /\ reports' = reports \cup {ReportId(t[1], t[2])}
    /\ UNCHANGED <<cfg, matplotlib, plot,
                   mainPc, logs, sesIdx, avg, avgLogs, exit>>

-----------------------------------------------------------------------------
(* Grand-average report: run_report_average and add_decoding_grand_average *)

\* The fields of a time-by-time score file every such file holds, and the
\* fields that hold the statistics across subjects.
BaseFields == {"times", "mean", "decim", "N"}
UncertaintyFields == {"mean_se", "mean_ci_lower", "mean_ci_upper"}
ClusterFields == {"clusters"}
PermutationFields == {"cluster_n_permutations"}
TValueFields ==
    {"cluster_all_times", "cluster_all_t_values", "cluster_t_threshold"}
\* The statistics come in two groups: the bootstrapped uncertainty of the
\* mean and the results of the cluster permutation test.
ClusterStatFields == ClusterFields \cup PermutationFields \cup TValueFields
StatFieldGroups == {UncertaintyFields, ClusterStatFields}
StatFields == UNION StatFieldGroups

\* The cluster collections a score file can hold: the p-values of at most
\* MaxClusters clusters.
ClusterSeqs == UNION { [1..n -> PValues] : n \in 0..MaxClusters }

\* What loadmat finds for the time-by-time scores of one contrast of the
\* pseudo-subject 'average': no file, a file that lacks a group of statistics
\* fields (none of its clusters is ever read: the first read of an absent
\* field raises), or a file with every field and its clusters.
GavgData ==
    {[exists |-> FALSE, fields |-> {}, clusters |-> <<>>]}
    \cup { [exists |-> TRUE, fields |-> BaseFields \cup UNION gs,
            clusters |-> <<>>] :
             gs \in (SUBSET StatFieldGroups) \ {StatFieldGroups} }
    \cup { [exists |-> TRUE, fields |-> BaseFields \cup StatFields,
            clusters |-> cl] : cl \in ClusterSeqs }

\* The fields _plot_time_by_time_decoding_scores_gavg reads, in the order of
\* its statements, and those plot_time_by_time_decoding_t_values reads.
PlotScoresReads ==
    <<"times", "mean", "mean_se", "mean_ci_lower", "mean_ci_upper", "decim",
      "clusters", "N">>
PlotTValuesReads ==
    <<"cluster_all_times", "cluster_all_t_values", "cluster_t_threshold",
      "decim", "N">>

\* Reading the fields `order' from a file holding `present': the fields read
\* before the first absent one (a KeyError ends the reading there).
RECURSIVE FieldsRead(_, _)
FieldsRead(order, present) ==
    IF order = <<>> \/ Head(order) \notin present THEN {}
    ELSE {Head(order)} \cup FieldsRead(Tail(order), present)

ReadsAll(order, present) == SeqRange(order) \subseteq present

\* A count that takes in the clusters whose p-value equals the threshold.
n_clusters_not_above(clusters, threshold) ==
    Cardinality({ i \in 1..Len(clusters) : clusters[i] <= threshold })

\* The loop over the clusters of _plot_time_by_time_decoding_scores_gavg: a
\* cluster whose p-value is >= the threshold is passed over, every other one
\* is highlighted; the result is n_significant_clusters_plotted.
RECURSIVE n_significant_clusters_plotted(_, _)
n_significant_clusters_plotted(clusters, threshold) ==
    IF clusters = <<>> THEN 0
    ELSE (IF Head(clusters) >= threshold THEN 0 ELSE 1)
         + n_significant_clusters_plotted(Tail(clusters), threshold)

\* No figure.
NoFig == [contrast |-> 0, bands |-> FALSE, clusters |-> <<>>,
          highlights |-> 0, added |-> FALSE, closed |-> FALSE]

\* No run_report_average call is running.  Besides its position, its
\* document and its figure a call holds whether it has logged the warning of
\* add_event_counts (warned).
IdleAvg == [pc |-> "Idle", doc |-> <<>>, c |-> 0, fig |-> NoFig,
            read |-> {}, missing |-> FALSE, finalized |-> FALSE,
            warned |-> FALSE]

\* len(get_subjects(cfg)) > 1
SeveralSubjects == cfg.nSubjects > 1

\* failsafe_run around run_report_average: the exception is caught, the
\* document is dropped and the call ends with a log of the failure.
failsafe_run_average(a) == [a EXCEPT !.pc = "Failed", !.doc = <<>>]

\* The items one pass of the `Time-by-time decoding' loop adds for contrast c:
\* only with several subjects the score figure and the t-value figure, and
\* with time generalization the generalization matrix.
TimeByTimeItems(c) ==
    (IF SeveralSubjects
     THEN <<ContrastItem("Decoding performance over time", c),
            ContrastItem("t-values based on decoding scores over time", c)>>
     ELSE <<>>)
    \o (IF cfg.decoding_time_generalization
        THEN <<ContrastItem("Time generalization", c)>> ELSE <<>>)

\* A pass that passes over a contrast whose scores cannot be loaded or
\* plotted instead of raising.
time_by_time_pass_continue(a, data) ==
    [a EXCEPT !.doc = IF data.exists /\ StatFields \subseteq data.fields
                      THEN @ \o TimeByTimeItems(a.c) ELSE @,
              !.c = @ + 1,
              !.pc = IF a.c = cfg.nContrasts THEN "Decoded" ELSE "TimeByTime"]

\* A pass that adds the t-value figure only for a contrast with a
\* significant cluster.
time_by_time_pass_significant(a, data) ==
    LET n == n_significant_clusters_plotted(
                 data.clusters, cfg.cluster_permutation_p_threshold)
        Kept(it) ==
            n > 0 \/ it.title # "t-values based on decoding scores over time"
    IN  IF ~(data.exists /\ StatFields \subseteq data.fields)
        THEN [failsafe_run_average(a) EXCEPT !.missing = ~data.exists]
        ELSE [a EXCEPT !.doc = @ \o SelectSeq(TimeByTimeItems(a.c), Kept),
                       !.fig = [contrast |-> a.c, bands |-> TRUE,
                                clusters |-> data.clusters, highlights |-> n,
                                added |-> SeveralSubjects,
                                closed |-> SeveralSubjects],
                       !.c = @ + 1,
                       !.pc = IF a.c = cfg.nContrasts
                              THEN "Decoded" ELSE "TimeByTime"]

\* A pass that raises after it has drawn the figure of a contrast without
\* clusters (as by reading the first cluster).
time_by_time_pass_first_cluster(a, data) ==
    LET n == n_significant_clusters_plotted(
                 data.clusters, cfg.cluster_permutation_p_threshold)
        fig == [contrast |-> a.c, bands |-> TRUE, clusters |-> data.clusters,
                highlights |-> n, added |-> FALSE, closed |-> FALSE]
    IN  IF ~(data.exists /\ StatFields \subseteq data.fields)
        THEN [failsafe_run_average(a) EXCEPT !.missing = ~data.exists]
        ELSE IF data.clusters = <<>>
        THEN [failsafe_run_average(a) EXCEPT
                !.read = SeqRange(PlotScoresReads), !.fig = fig]
        ELSE [a EXCEPT !.doc = @ \o TimeByTimeItems(a.c),
                       !.read = SeqRange(PlotScoresReads),
                       !.fig = [fig EXCEPT !.added = SeveralSubjects,
                                           !.closed = SeveralSubjects],
                       !.c = @ + 1,
                       !.pc = IF a.c = cfg.nContrasts
                              THEN "Decoded" ELSE "TimeByTime"]

\* One pass of the `Time-by-time decoding' loop of add_decoding_grand_average
\* for contrast a.c, where loadmat finds `data':
\*   - loadmat raises when the file is absent;
\*   - _plot_time_by_time_decoding_scores_gavg reads the standard error, the
\*     confidence interval and the clusters whatever the number of subjects,
\*     draws both bands and highlights the significant clusters;
\*   - only with several subjects the caption reads the number of
\*     permutations, the figure is added and closed, and the t-values are
\*     plotted, added and closed;
\*   - with time generalization the generalization matrix is added.
time_by_time_pass(a, data) ==
    LET plotted == ReadsAll(PlotScoresReads, data.fields)
        plotRead == FieldsRead(PlotScoresReads, data.fields)
        capRead == IF SeveralSubjects
                   THEN PermutationFields \cap data.fields ELSE {}
        capOk == SeveralSubjects => PermutationFields \subseteq data.fields
        tRead == IF SeveralSubjects
                 THEN FieldsRead(PlotTValuesReads, data.fields) ELSE {}
        tOk == SeveralSubjects => ReadsAll(PlotTValuesReads, data.fields)
        fig == [contrast |-> a.c, bands |-> TRUE, clusters |-> data.clusters,
                highlights |-> n_significant_clusters_plotted(
                    data.clusters, cfg.cluster_permutation_p_threshold),
                added |-> SeveralSubjects, closed |-> SeveralSubjects]
    IN  IF ~data.exists
        THEN [failsafe_run_average(a) EXCEPT
                !.missing = TRUE, !.read = {}, !.fig = NoFig]
        ELSE IF ~plotted
        THEN [failsafe_run_average(a) EXCEPT !.read = plotRead, !.fig = NoFig]
        ELSE IF ~capOk
        THEN [failsafe_run_average(a) EXCEPT
                !.read = plotRead,
                !.fig = [fig EXCEPT !.added = FALSE, !.closed = FALSE]]
        ELSE IF ~tOk
        THEN [failsafe_run_average(a) EXCEPT
                !.read = plotRead \cup capRead \cup tRead, !.fig = fig]
        ELSE [a EXCEPT !.doc = @ \o TimeByTimeItems(a.c),
                       !.read = plotRead \cup capRead \cup tRead,
                       !.fig = fig,
                       !.c = @ + 1,
                       !.pc = IF a.c = cfg.nContrasts
                              THEN "Decoded" ELSE "TimeByTime"]

\* The full-epochs part that goes on without the scores.
full_epochs_pass_skip(a, scoresExist) ==
    [a EXCEPT !.doc = IF scoresExist
                      THEN Append(@, Item("Full-epochs Decoding", "decoding"))
                      ELSE @,
              !.missing = ~scoresExist, !.c = 1, !.pc = "TimeByTime"]

\* The `Full-epochs decoding' part of add_decoding_grand_average: loadmat
\* raises when the full-epochs score file of a contrast is absent; otherwise
\* the figure of all contrasts is added and closed.
full_epochs_pass(a, scoresExist) ==
    IF ~scoresExist
    THEN [failsafe_run_average(a) EXCEPT !.missing = TRUE]
    ELSE [a EXCEPT !.doc = Append(@, Item("Full-epochs Decoding", "decoding")),
                   !.c = 1, !.pc = "TimeByTime"]

\* The names run_report_average walks: the conditions, then the contrasts.
AverageNames == Conditions \o ContrastNames

\* The evoked items of run_report_average: the conditions only.
AverageEvokedItems ==
    [i \in 1..Len(Conditions) |-> Item("Average", Conditions[i])]

\* The source-estimate items of run_report_average: every name (condition or
\* contrast) whose morphed left-hemisphere file exists.
AverageStcItems(stcs) ==
    Flatten([i \in 1..Len(AverageNames) |->
                IF AverageNames[i] \in stcs
                THEN <<Item("Average source estimate", AverageNames[i])>>
                ELSE <<>>],
            Len(AverageNames))

\* run_report_average starts for session sesIdx: the report is created and
\* the grand-average evokeds are read, which raises when they are absent.
AvgStart ==
    /\ mainPc = "average"
    /\ avg.pc = "Idle"
    /\ sesIdx <= cfg.nSessions
    /\ \E evokedsExist \in BOOLEAN :
         avg' = IF evokedsExist THEN [IdleAvg EXCEPT !.pc = "Created"]
                ELSE failsafe_run_average(IdleAvg)
    /\ UNCHANGED <<cfg, matplotlib, plot,
                   mainPc, tasks, logs, sesIdx, avgLogs, reports, exit>>

\* An add_event_counts that lets the ValueError of count_events escape.
add_event_counts_raise(a, countable) ==
    IF countable
    THEN [a EXCEPT !.pc = "Events",
                   !.doc = Append(@, Item("Event counts", "events"))]
    ELSE failsafe_run_average(a)

\* add_event_counts: a ValueError of count_events (countable = FALSE) is
\* caught, a warning is logged and nothing is added; otherwise the table of
\* event counts is added.
add_event_counts(a, countable) ==
    IF countable
    THEN [a EXCEPT !.pc = "Events",
                   !.doc = Append(@, Item("Event counts", "events"))]
    ELSE [a EXCEPT !.pc = "Events", !.warned = TRUE]

AvgEventCounts ==
    /\ avg.pc = "Created"
    /\ \E countable \in BOOLEAN : avg' = add_event_counts(avg, countable)
    /\ UNCHANGED <<cfg, matplotlib, plot,
                   mainPc, tasks, logs, sesIdx, avgLogs, reports, exit>>

\* An evoked loop that puts its items before the items of the document.
AvgEvokedsFirst ==
    /\ avg.pc = "Events"
    /\ avg' = [avg EXCEPT !.pc = "Evoked", !.doc = AverageEvokedItems \o @]
    /\ UNCHANGED <<cfg, matplotlib, plot,
                   mainPc, tasks, logs, sesIdx, avgLogs, reports, exit>>

\* The evoked loop of run_report_average.
AvgEvokeds ==
    /\ avg.pc = "Events"
    /\ avg' = [avg EXCEPT !.pc = "Evoked", !.doc = @ \o AverageEvokedItems]
    /\ UNCHANGED <<cfg, matplotlib, plot,
                   mainPc, tasks, logs, sesIdx, avgLogs, reports, exit>>

\* `if cfg.decode and cfg.decoding_contrasts' is false: no decoding section.
AvgNoDecoding ==
    /\ avg.pc = "Evoked"
    /\ ~DecodingEnabled
    /\ avg' = [avg EXCEPT !.pc = "Decoded"]
    /\ UNCHANGED <<cfg, matplotlib, plot,
                   mainPc, tasks, logs, sesIdx, avgLogs, reports, exit>>

AvgDecodingFullEpochs ==
    /\ avg.pc = "Evoked"
    /\ DecodingEnabled
    /\ \E scoresExist \in BOOLEAN : avg' = full_epochs_pass(avg, scoresExist)
    /\ UNCHANGED <<cfg, matplotlib, plot,
                   mainPc, tasks, logs, sesIdx, avgLogs, reports, exit>>

AvgDecodingTimeByTime ==
    /\ avg.pc = "TimeByTime"
    /\ \E data \in GavgData : avg' = time_by_time_pass(avg, data)
    /\ UNCHANGED <<cfg, matplotlib, plot,
                   mainPc, tasks, logs, sesIdx, avgLogs, reports, exit>>

\* The decoding part has returned (its figure variable and score data are
\* gone); the source estimates are added.
AvgStc ==
    /\ avg.pc = "Decoded"
    /\ \E stcs \in SUBSET SeqRange(AverageNames) :
         avg' = [avg EXCEPT !.pc = "Stc", !.doc = @ \o AverageStcItems(stcs),
                            !.fig = NoFig, !.read = {}]
    /\ UNCHANGED <<cfg, matplotlib, plot,
                   mainPc, tasks, logs, sesIdx, avgLogs, reports, exit>>

AvgSystemInfo ==
    /\ avg.pc = "Stc"
    /\ avg' = [avg EXCEPT !.pc = "Finalized", !.doc = add_system_info(@),
                          !.finalized = TRUE]
    /\ UNCHANGED <<cfg, matplotlib, plot,
                   mainPc, tasks, logs, sesIdx, avgLogs, reports, exit>>

\* report.save and plt.close('all'): the end of run_report_average.
AvgSave ==
    /\ avg.pc = "Finalized"
    /\ avg' = [avg EXCEPT !.pc = "Saved"]
    /\ reports' = reports \cup {AverageId(sesIdx)}
    /\ UNCHANGED <<cfg, matplotlib, plot,
                   mainPc, tasks, logs, sesIdx, avgLogs, exit>>

\* A loop over the sessions that passes over every second session.
AvgReturnSkip ==
    /\ avg.pc \in {"Saved", "Failed"}
    /\ avgLogs' = Append(avgLogs, avg.pc = "Saved")
    /\ avg' = IdleAvg
    /\ sesIdx' = sesIdx + 2
    /\ UNCHANGED <<cfg, matplotlib, plot, mainPc, tasks, logs, reports, exit>>

\* run_report_average returns to the loop over the sessions.
AvgReturn ==
    /\ avg.pc \in {"Saved", "Failed"}
    /\ avgLogs' = Append(avgLogs, avg.pc = "Saved")
    /\ avg' = IdleAvg
    /\ sesIdx' = sesIdx + 1
    /\ UNCHANGED <<cfg, matplotlib, plot, mainPc, tasks, logs, reports, exit>>

-----------------------------------------------------------------------------
(* The full-epochs plot: _plot_full_epochs_decoding_scores *)

\* The score vectors add_decoding_grand_average loads for the full-epochs
\* figure of n contrasts: one vector per contrast (np.atleast_1d: at least
\* one score).  A score is written as the number of the contrast it was
\* loaded for.
ScoreVectors(n) ==
    { [k \in 1..n |-> [j \in 1..lens[k] |-> k]] :
        lens \in [1..n -> 1..MaxScores] }

\* The column 'Contrast' of the data frame: the label of every contrast
\* repeated len(scores[0]) times, flattened.
ContrastColumn(scores) ==
    Flatten([k \in 1..Len(scores) |-> [j \in 1..Len(scores[1]) |-> k]],
            Len(scores))

\* np.hstack(scores): the score column of the data frame.
hstack(scores) == Flatten(scores, Len(scores))

\* _plot_full_epochs_decoding_scores: pd.DataFrame raises a ValueError when
\* its two columns differ in length; otherwise row i of the frame pairs the
\* i-th label with the i-th score, and the figure shows each row's score
\* under its label.
plot_full_epochs_decoding_scores(scores) ==
    LET contrast == ContrastColumn(scores)
        score == hstack(scores)
    IN  IF Len(contrast) # Len(score)
        THEN [raised |-> TRUE, rows |-> <<>>]
        ELSE [raised |-> FALSE,
              rows |-> [i \in 1..Len(score) |->
                          [Contrast |-> contrast[i], score |-> score[i]]]]

\* No call of the plot.
NoPlot ==
    [pc |-> "none", scores |-> <<>>, raised |-> FALSE, rows |-> <<>>,
     added |-> FALSE]

\* add_decoding_grand_average calls the plot on the vectors it has loaded.
PlotFullEpochs ==
    /\ plot.pc = "loaded"
    /\ LET fig == plot_full_epochs_decoding_scores(plot.scores)
       IN  plot' = [plot EXCEPT
                      !.pc = IF fig.raised THEN "raised" ELSE "plotted",
                      !.raised = fig.raised, !.rows = fig.rows]
    /\ UNCHANGED <<cfg, matplotlib, mainPc, tasks, logs, sesIdx, avg, avgLogs,
                   reports, exit>>

\* report.add_figure(title='Full-epochs Decoding') on the returned figure.
AddFullEpochsFigure ==
    /\ plot.pc = "plotted"
    /\ plot' = [plot EXCEPT !.pc = "added", !.added = TRUE]
    /\ UNCHANGED <<cfg, matplotlib, mainPc, tasks, logs, sesIdx, avg, avgLogs,
                   reports, exit>>

-----------------------------------------------------------------------------
(* main *)

\* The backends matplotlib can have when main is called: an interactive one
\* or 'Agg' itself in the study of a single pair, an interactive one in the
\* studies of several.
Backends == IF Cardinality(TaskIds) = 1 THEN {"TkAgg", "Agg"} ELSE {"TkAgg"}

\* _agg_backend up to its `yield': the backend in force is kept in the local
\* variable `backend' and 'Agg' is forced.
agg_backend_enter(m) == [backend |-> "Agg", saved |-> m.backend]

\* A context manager whose exit leaves the backend as it is.
agg_backend_exit_keep(m) == m

\* The `finally' clause of _agg_backend: matplotlib.use(backend, force=True).
agg_backend_exit(m) == [m EXCEPT !.backend = m.saved]

\* The log failsafe_run returns for a task.
LogOf(rec) ==
    [success |-> rec.pc = "Saved",
     failedIn |-> IF rec.pc = "Failed" THEN rec.ran[Len(rec.ran)] ELSE "none"]

\* The list is handed on as soon as one task has returned.
SomeTaskEnded == \E t \in TaskIds : Ended(tasks[t])

\* `logs = parallel(...)': the list is complete when every task has returned.
AllTasksEnded == \A t \in TaskIds : Ended(tasks[t])

\* The status with which the process ends when main returns: main inspects
\* no log and ends by falling off its end or by its `return'.
ExitStatus == "zero"

\* main enters `with get_parallel_backend(config), _agg_backend()'.
EnterAggBackend ==
    /\ mainPc = "start"
    /\ mainPc' = "parallel"
    /\ matplotlib' = agg_backend_enter(matplotlib)
    /\ UNCHANGED <<cfg, plot, tasks, logs, sesIdx, avg, avgLogs, reports, exit>>

Join ==
    /\ mainPc = "parallel"
    /\ AllTasksEnded
    /\ logs' = [t \in TaskIds |-> LogOf(tasks[t])]
    /\ tasks' = [t \in TaskIds |->
                   IF Ended(tasks[t]) THEN JoinedTask ELSE tasks[t]]
    /\ mainPc' = "save_logs"
    /\ UNCHANGED <<cfg, matplotlib, plot, sesIdx, avg, avgLogs, reports, exit>>

\* save_logs, then the `sessions' loop is entered ...
SaveLogs ==
    /\ mainPc = "save_logs"
    /\ ~cfg.task_is_rest
    /\ mainPc' = "average"
    /\ sesIdx' = 1
    /\ UNCHANGED <<cfg, matplotlib, plot,
                   tasks, logs, avg, avgLogs, reports, exit>>

\* A main that goes on to the loop over the sessions for a resting-state
\* task too.
SaveLogsRestAverage ==
    /\ mainPc = "save_logs"
    /\ cfg.task_is_rest
    /\ mainPc' = "average"
    /\ sesIdx' = 1
    /\ UNCHANGED <<cfg, matplotlib, plot,
                   tasks, logs, avg, avgLogs, reports, exit>>

\* ... or, for a resting-state task, main returns from inside the `with'
\* block, which runs the exit of _agg_backend.
SaveLogsRest ==
    /\ mainPc = "save_logs"
    /\ cfg.task_is_rest
    /\ mainPc' = "done"
    /\ exit' = ExitStatus
    /\ matplotlib' = agg_backend_exit(matplotlib)
    /\ UNCHANGED <<cfg, plot, tasks, logs, sesIdx, avg, avgLogs, reports>>

\* The loop over the sessions is over: the `with' block is left, which runs
\* the exit of _agg_backend, and main ends.
MainReturn ==
    /\ mainPc = "average"
    /\ avg.pc = "Idle"
    /\ sesIdx > cfg.nSessions
    /\ mainPc' = "done"
    /\ exit' = ExitStatus
    /\ matplotlib' = agg_backend_exit(matplotlib)
    /\ UNCHANGED <<cfg, plot, tasks, logs, sesIdx, avg, avgLogs, reports>>

\* main is called: nothing has run, matplotlib has any of its backends.
Init ==
    /\ cfg \in Configs
    /\ mainPc = "start"
    /\ tasks = [t \in TaskIds |-> QueuedTask]
    /\ logs = <<>>
    /\ sesIdx = 0
    /\ avg = IdleAvg
    /\ avgLogs = <<>>
    /\ reports = {}
    /\ exit = "running"
    /\ matplotlib \in [backend : Backends, saved : {"none"}]
    /\ plot = NoPlot

TaskStep(t) ==
    \/ StartTask(t)
    \/ Preprocessing(t)
    \/ Sensor(t)
    \/ Source(t)
    \/ Finalize(t)
    \/ Save(t)

AvgStep ==
    \/ AvgStart
    \/ AvgEventCounts
    \/ AvgEvokeds
    \/ AvgNoDecoding
    \/ AvgDecodingFullEpochs
    \/ AvgDecodingTimeByTime
    \/ AvgStc
    \/ AvgSystemInfo
    \/ AvgSave
    \/ AvgReturn

Next ==
    \/ EnterAggBackend
    \/ \E t \in TaskIds : StartTask(t)
    \/ \E t \in TaskIds : Preprocessing(t)
    \/ \E t \in TaskIds : Sensor(t)
    \/ \E t \in TaskIds : Source(t)
    \/ \E t \in TaskIds : Finalize(t)
    \/ \E t \in TaskIds : Save(t)
    \/ Join
    \/ SaveLogs
    \/ SaveLogsRest
    \/ AvgStep
    \/ MainReturn

Spec == Init /\ [][Next]_vars

\* The full-epochs plot on its own: the grand-average report of a study that
\* decodes n contrasts has loaded the score vector of each and plots them.
PlotConfig(n) ==
    [nSubjects |-> 1, nSessions |-> 1, task_is_rest |-> FALSE,
     decode |-> TRUE, nContrasts |-> n,
     decoding_time_generalization |-> FALSE,
     cluster_permutation_p_threshold |-> 5,
     time_frequency_conditions |-> <<>>, spatial_filter |-> "none"]

PlotInit ==
    /\ cfg \in { PlotConfig(n) : n \in 1..MaxScoreVectors }
    /\ mainPc = "average"
    /\ tasks = [t \in TaskIds |-> JoinedTask]
    /\ logs = <<>>
    /\ sesIdx = 1
    /\ avg = [IdleAvg EXCEPT !.pc = "Evoked"]
    /\ avgLogs = <<>>
    /\ reports = {}
    /\ exit = "running"
    /\ matplotlib = [backend |-> "Agg", saved |-> "TkAgg"]
    /\ plot \in { [NoPlot EXCEPT !.pc = "loaded", !.scores = sc] :
                    sc \in ScoreVectors(cfg.nContrasts) }

PlotNext ==
    \/ PlotFullEpochs
    \/ AddFullEpochsFigure

PlotSpec == PlotInit /\ [][PlotNext]_vars

-----------------------------------------------------------------------------
(* Properties *)

IsPrefix(s, t) == Len(s) <= Len(t) /\ s = SubSeq(t, 1, Len(s))
IsSuffix(s, t) == Len(s) <= Len(t) /\ s = SubSeq(t, Len(t) - Len(s) + 1, Len(t))

\* The document of a task after the preprocessing and the sensor stage.
SensorDoc(rec) ==
    PreprocessingItems(rec.omitted) \o EvokedItems \o SensorDecodingItems
    \o TfrItems

\* The titles of the items of `doc' that belong to contrast c.
ContrastTitles(doc, c) ==
    { doc[i].title : i \in { j \in 1..Len(doc) : doc[j].contrast = c } }

\* C1: in a subject-level run the stages that have started are, in order, a
\* prefix of Preprocessing, Sensor, Source, Finalized (none runs twice, none
\* before its predecessor has returned), the state of the run is the stage
\* that ran last, and a run that saves its report has run each stage once.
C1_StagesInOrder ==
    \A t \in TaskIds :
        LET r == tasks[t] IN
        /\ IsPrefix(r.ran, Stages)
        /\ r.pc \in {"Queued", "Empty"} => r.ran = <<>>
        /\ r.pc \in SeqRange(Stages) =>
              r.ran # <<>> /\ r.ran[Len(r.ran)] = r.pc
        /\ r.pc = "Saved" => r.ran = Stages

C1_Witness ==
    \E t \in TaskIds :
        tasks[t].pc = "Saved" /\ tasks[t].ran = Stages
        /\ tasks[t].trans = "present"

\* C2: a task that finds no coregistration file has not failed, its document
\* holds exactly the items of the preprocessing and sensor stages (followed,
\* once finalized, by the system information), it can always take its next
\* step towards the save, and once saved its report is persisted.
C2_NoCoregistrationSkipsSource ==
    \A t \in TaskIds :
        LET r == tasks[t] IN
        r.trans = "absent" =>
            /\ r.pc \in {"Source", "Finalized", "Saved"}
            /\ r.pc = "Source" => r.doc = SensorDoc(r) /\ ENABLED Finalize(t)
            /\ r.pc = "Finalized" =>
                  r.doc = SensorDoc(r) \o SystemInfoItems /\ ENABLED Save(t)
            /\ r.pc = "Saved" =>
                  /\ r.doc = SensorDoc(r) \o SystemInfoItems
                  /\ ReportId(t[1], t[2]) \in reports

C2_Witness ==
    \E t \in TaskIds :
        /\ tasks[t].trans = "absent"
        /\ tasks[t].pc = "Saved"
        /\ ReportId(t[1], t[2]) \in reports
        /\ Item("Condition", "A") \in SeqRange(tasks[t].doc)

\* C3 as stated: every run of the assembler that has ended, saved or failed,
\* subject-level or grand-average, has executed the finalization step.
C3_FinalizationAlwaysExecuted ==
    /\ \A t \in TaskIds :
          Ended(tasks[t]) => "Finalized" \in SeqRange(tasks[t].ran)
    /\ avg.pc \in {"Saved", "Failed"} => avg.finalized

\* C3 amended: whenever all content stages have returned (having added
\* their items or skipped), the finalization step is executed next and the
\* document that is saved ends with the system information; a run in which
\* a content stage raised executes no finalization and persists no report.
C3_FinalizationAfterStagesReturn ==
    /\ \A t \in TaskIds :
          LET r == tasks[t] IN
          /\ r.pc = "Source" => ENABLED Finalize(t)
          /\ r.pc \in {"Finalized", "Saved"} =>
                /\ "Finalized" \in SeqRange(r.ran)
                /\ IsSuffix(SystemInfoItems, r.doc)
          /\ r.pc = "Failed" =>
                /\ "Finalized" \notin SeqRange(r.ran)
                /\ ReportId(t[1], t[2]) \notin reports
    /\ avg.pc = "Stc" => ENABLED AvgSystemInfo
    /\ avg.pc \in {"Finalized", "Saved"} =>
          avg.finalized /\ IsSuffix(SystemInfoItems, avg.doc)
    /\ avg.pc = "Failed" =>
          ~avg.finalized /\ AverageId(sesIdx) \notin reports

C3_Witness ==
    /\ \E t \in TaskIds :
          tasks[t].pc = "Finalized" /\ tasks[t].trans = "absent"
    /\ \E u \in TaskIds : tasks[u].pc = "Failed"

\* C4: while the tasks run, every task that has not ended can take its next
\* step whatever has happened to the others; a failure leaves main where it
\* is; and once the logs are collected every task has its own outcome in
\* them, a success exactly for the tasks whose report is persisted.
C4_FailureIsolated ==
    /\ \A t \in TaskIds :
          mainPc = "parallel" /\ ~Ended(tasks[t]) => ENABLED TaskStep(t)
    /\ (\E t \in TaskIds : tasks[t].pc = "Failed") =>
          mainPc = "parallel" /\ exit = "running"
    /\ mainPc \notin {"start", "parallel"} =>
          /\ DOMAIN logs = TaskIds
          /\ \A t \in TaskIds :
                logs[t].success <=> ReportId(t[1], t[2]) \in reports

C4_Witness ==
    /\ mainPc = "save_logs"
    /\ \E t, u \in TaskIds : ~logs[t].success /\ logs[u].success

\* C5 as stated: when main has ended, the exit status is zero exactly if
\* every subject-level task succeeded.
C5_ExitStatusReflectsFailures ==
    mainPc = "done" =>
        (exit = "zero" <=> \A t \in TaskIds : logs[t].success)

\* C6: a grand-average call is running or has run only when every
\* subject-level task has ended and returned its log to main.
C6_Barrier ==
    (avg.pc # "Idle" \/ avgLogs # <<>>) =>
        /\ DOMAIN logs = TaskIds
        /\ \A t \in TaskIds : tasks[t].pc = "Joined"

C6_Witness ==
    /\ avg.pc = "Created"
    /\ \E t, u \in TaskIds : ~logs[t].success /\ logs[u].success

C8_NoPartialGrandAverage ==
    /\ (avg.pc = "Saved" /\ DecodingEnabled) =>
          /\ avg.c = cfg.nContrasts + 1
          /\ Item("Full-epochs Decoding", "decoding") \in SeqRange(avg.doc)
          /\ \A c \in 1..cfg.nContrasts :
                ContrastTitles(avg.doc, c) = Titles(TimeByTimeItems(c))
    /\ avg.pc # "Idle" =>
          (AverageId(sesIdx) \in reports <=> avg.pc = "Saved")

C8_Witness ==
    /\ avg.pc = "Saved"
    /\ DecodingEnabled
    /\ SeveralSubjects
    /\ AverageId(sesIdx) \in reports

\* C9 as stated: with exactly one subject, every pass of the time-by-time
\* loop that has plotted a contrast has added its score figure to the
\* document, and that figure shows the mean without uncertainty bands.
C9_MeanOnlyFigureForOneSubject ==
    (cfg.nSubjects = 1 /\ avg.fig.contrast > 0) =>
        /\ ~avg.fig.bands
        /\ avg.fig.added
        /\ ContrastItem("Decoding performance over time", avg.fig.contrast)
              \in SeqRange(avg.doc)

\* C10 as stated: with exactly one subject, no statistics field of the score
\* file is read, no cluster is highlighted and no t-value figure is added.
C10_NoStatisticsForOneSubject ==
    cfg.nSubjects = 1 =>
        /\ avg.read \cap StatFields = {}
        /\ avg.fig.highlights = 0
        /\ "t-values based on decoding scores over time" \notin Titles(avg.doc)

\* C11 as stated: at the end of every stage of a task no figure the task has
\* created is still open, and the score figure of every pass of the
\* grand-average time-by-time loop is closed when the pass ends.
C11_FiguresClosedAfterEmbedding ==
    /\ \A t \in TaskIds :
          tasks[t].pc \in SeqRange(Stages) \cup {"Saved"} =>
              tasks[t].open = {}
    /\ avg.fig.contrast > 0 => avg.fig.closed

\* C12: the number of clusters highlighted in the score figure of a pass is
\* the number of clusters of the score file whose p-value is strictly below
\* the threshold; a cluster whose p-value equals the threshold is not
\* counted.
C12_HighlightStrictlyBelowThreshold ==
    avg.fig.contrast > 0 =>
        avg.fig.highlights =
            Cardinality({ i \in 1..Len(avg.fig.clusters) :
                            avg.fig.clusters[i]
                                < cfg.cluster_permutation_p_threshold })

C12_Witness ==
    /\ avg.fig.contrast > 0
    /\ avg.fig.highlights = 1
    /\ \E i, j \in 1..Len(avg.fig.clusters) :
          /\ avg.fig.clusters[i] = cfg.cluster_permutation_p_threshold
          /\ avg.fig.clusters[j] < cfg.cluster_permutation_p_threshold

\* C13: with several subjects, every contrast whose pass has been made has
\* its t-value figure in the document, whatever its clusters.
C13_TValuesFigureForEveryContrast ==
    (SeveralSubjects /\ avg.pc \notin {"Idle", "Failed"}) =>
        \A c \in 1..(avg.c - 1) :
            ContrastItem("t-values based on decoding scores over time", c)
                \in SeqRange(avg.doc)

C13_Witness ==
    /\ SeveralSubjects
    /\ avg.pc = "Decoded"
    /\ avg.fig.contrast = cfg.nContrasts
    /\ avg.fig.highlights = 0
    /\ ContrastItem("t-values based on decoding scores over time",
                    avg.fig.contrast) \in SeqRange(avg.doc)

\* C14 as stated: a task has logged a message about every optional content
\* it left out because the artifact was absent.
C14_OmissionsLogged ==
    \A t \in TaskIds : tasks[t].omitted \subseteq tasks[t].logged

\* C15: with decoding enabled, a task that has got past the sensor stage has
\* every decoding item of the stage in its document (the section is never
\* passed over), and a task that has failed takes no further step and has
\* persisted no report.
C15_FailingStageRaises ==
    \A t \in TaskIds :
        LET r == tasks[t] IN
        /\ (DecodingEnabled
            /\ r.pc \in {"Sensor", "Source", "Finalized", "Saved"}) =>
              SeqRange(SensorDecodingItems) \subseteq SeqRange(r.doc)
        /\ r.pc = "Failed" =>
              /\ ~ENABLED TaskStep(t)
              /\ ReportId(t[1], t[2]) \notin reports

C15_Witness ==
    \E t \in TaskIds :
        /\ tasks[t].pc = "Failed"
        /\ tasks[t].ran = <<"Preprocessing", "Sensor">>
        /\ ReportId(t[1], t[2]) \notin reports
        /\ DecodingEnabled

\* The document a saved task holds, from what the task itself has found: the
\* source estimates it added are those of the conditions it did not omit.
AloneDoc(rec) ==
    SensorDoc(rec)
    \o (IF rec.trans = "present"
        THEN SourceItems({ Conditions[i] :
                             i \in { j \in 1..Len(Conditions) :
                                       SourceTitles[j] \notin rec.omitted } })
        ELSE <<>>)
    \o SystemInfoItems

\* C16: every step leaves the items a document holds where they are and only
\* adds items after them (the document of a failed run is dropped with the
\* run); the step that saves a document does not change it, and a saved
\* document is not changed afterwards.
C16_AppendOnlyThenImmutable ==
    [][ /\ \A t \in TaskIds :
             LET r == tasks[t]
                 q == tasks'[t]
             IN  /\ q.pc \notin {"Failed", "Joined"} => IsPrefix(r.doc, q.doc)
                 /\ q.pc = "Saved" => q.doc = r.doc
                 /\ r.pc = "Saved" => q.pc \in {"Saved", "Joined"}
        /\ avg'.pc \notin {"Failed", "Idle"} => IsPrefix(avg.doc, avg'.doc)
        /\ avg'.pc = "Saved" => avg'.doc = avg.doc
        /\ avg.pc = "Saved" => avg'.pc \in {"Saved", "Idle"} ]_vars

C16_Witness ==
    /\ \E t \in TaskIds :
          /\ tasks[t].pc = "Saved"
          /\ Len(tasks[t].doc) > Len(SensorDoc(tasks[t])) + Len(SystemInfoItems)
    /\ \E u \in TaskIds : tasks[u].pc = "Finalized"

C18_NoNoiseCovarianceDegradesGracefully ==
    \A t \in TaskIds :
        (tasks[t].pc = "Sensor" /\ tasks[t].cov = "absent") =>
            ENABLED (/\ Source(t)
                     /\ tasks'[t].trans = "present"
                     /\ tasks'[t].pc = "Source")

\* The group of an item of the grand-average document.
AverageGroup(it) ==
    CASE it.title = "Event counts" -> 1
      [] it.title = "Average" -> 2
      [] it.title \in {"Full-epochs Decoding",
                       "Decoding performance over time",
                       "t-values based on decoding scores over time",
                       "Time generalization"} -> 3
      [] it.title = "Average source estimate" -> 4
      [] OTHER -> 5

\* C19: in the grand-average document no item of a later group (event
\* counts, evoked averages, decoding, source estimates, system information)
\* precedes an item of an earlier group.
C19_GrandAverageSectionOrder ==
    \A i, j \in 1..Len(avg.doc) :
        i < j => AverageGroup(avg.doc[i]) <= AverageGroup(avg.doc[j])

C19_Witness ==
    /\ avg.pc = "Saved"
    /\ { AverageGroup(avg.doc[i]) : i \in 1..Len(avg.doc) } = 1..5

\* C20: there is one task per configured pair; the subject-level reports in
\* the sink are those of the tasks that have saved, and a task that has saved
\* cannot save again; the grand-average calls are made for the sessions in
\* order, one per session, and when main ends every session of a non-rest
\* task has had its call and a rest task none.
C20_OneReportPerPairAndSession ==
    /\ DOMAIN tasks = TaskIds
    /\ \A t \in TaskIds :
          /\ ReportId(t[1], t[2]) \in reports <=>
                (tasks[t].pc = "Saved"
                 \/ (t \in DOMAIN logs /\ logs[t].success))
          /\ ReportId(t[1], t[2]) \in reports => ~ENABLED TaskStep(t)
    /\ { r \in reports : r[1] # 0 } \subseteq TaskIds
    /\ mainPc = "average" =>
          /\ Len(avgLogs) = sesIdx - 1
          /\ sesIdx <= cfg.nSessions + 1
          /\ avg.pc # "Idle" => sesIdx <= cfg.nSessions
    /\ \A r \in reports :
          r[1] = 0 =>
              /\ r[2] \in 1..cfg.nSessions
              /\ r[2] <= sesIdx
              /\ r[2] <= Len(avgLogs) => avgLogs[r[2]]
    /\ mainPc = "done" =>
          Len(avgLogs) = IF cfg.task_is_rest THEN 0 ELSE cfg.nSessions

C20_Witness ==
    /\ mainPc = "done"
    /\ cfg.nSessions = 2
    /\ avgLogs = <<TRUE, TRUE>>
    /\ reports = {ReportId(1, 1), ReportId(1, 2), AverageId(1), AverageId(2)}

\* C21: score vectors of different lengths are never silently reconciled.
\* Whenever the full-epochs plot returns a figure, the vectors it was given
\* all have the same length and every score is shown under the contrast it
\* was loaded for.
C21_MismatchedScoresRaise ==
    ~plot.raised /\ plot.pc \in {"plotted", "added"} =>
        /\ \A k \in 1..Len(plot.scores) :
              Len(plot.scores[k]) = Len(plot.scores[1])
        /\ \A i \in 1..Len(plot.rows) :
              plot.rows[i].Contrast = plot.rows[i].score

\* C22: a significance threshold outside the open interval (0, 1) is
\* rejected before any report is assembled: with such a threshold no task
\* ever starts, no grand-average call runs and no report is persisted.
C22_InvalidThresholdRejected ==
    ~(0 < cfg.cluster_permutation_p_threshold
        /\ cfg.cluster_permutation_p_threshold < 100) =>
        /\ \A t \in TaskIds : tasks[t].pc = "Queued"
        /\ avg.pc = "Idle"
        /\ reports = {}

\* C24: a contrast without clusters is no error.  Whenever the score figure
\* of a contrast was drawn from a file whose cluster collection is empty, the
\* figure has its bands and no highlighted span, the grand-average call has
\* not failed, and with several subjects the figure is in the document.
C24_NoClustersIsNoError ==
    avg.fig.contrast > 0 /\ "clusters" \in avg.read /\ avg.fig.clusters = <<>>
    =>  /\ avg.fig.bands
        /\ avg.fig.highlights = 0
        /\ avg.pc \in {"TimeByTime", "Decoded"}
        /\ avg.fig.added = SeveralSubjects
        /\ SeveralSubjects =>
              ContrastItem("Decoding performance over time", avg.fig.contrast)
                  \in SeqRange(avg.doc)

C24_Witness ==
    /\ avg.fig.contrast > 0
    /\ "clusters" \in avg.read
    /\ avg.fig.clusters = <<>>
    /\ avg.fig.added
    /\ avg.pc = "Decoded"

\* The items the stages that have returned have added to the document of a
\* task, in the order of the stages.
StagesDoc(rec) ==
    (IF Len(rec.ran) >= 1 THEN PreprocessingItems(rec.omitted) ELSE <<>>)
    \o (IF Len(rec.ran) >= 2
        THEN EvokedItems \o SensorDecodingItems \o TfrItems ELSE <<>>)
    \o (IF Len(rec.ran) >= 3 /\ rec.trans = "present"
        THEN SourceItems({ Conditions[i] :
                             i \in { j \in 1..Len(Conditions) :
                                       SourceTitles[j] \notin rec.omitted } })
        ELSE <<>>)
    \o (IF Len(rec.ran) >= 4 THEN SystemInfoItems ELSE <<>>)

\* C25: every stage works on the document it is handed and returns it: the
\* document of a running task is empty when run_report has created it, and
\* after each stage it holds the items of all stages that have returned, in
\* the order of the stages, and nothing else; so does the saved document.
C25_StagesReturnTheirDocument ==
    \A t \in TaskIds :
        /\ tasks[t].pc = "Empty" => tasks[t].doc = <<>>
        /\ tasks[t].pc \in SeqRange(Stages) \cup {"Saved"} =>
              tasks[t].doc = StagesDoc(tasks[t])

C25_Witness ==
    \E t \in TaskIds :
        /\ tasks[t].pc = "Saved"
        /\ tasks[t].trans = "present"
        /\ Item("Source", "A") \in SeqRange(tasks[t].doc)
        /\ IsSuffix(SystemInfoItems, tasks[t].doc)

\* C26: for a resting-state task the grand-average phase never starts: no
\* grand-average call runs or has run and no grand-average report is
\* persisted; once the logs of the tasks are collected main can only return,
\* and when it has returned the log of every task is there.
C26_RestSkipsGrandAverage ==
    cfg.task_is_rest =>
        /\ mainPc # "average"
        /\ avg = IdleAvg /\ sesIdx = 0 /\ avgLogs = <<>>
        /\ \A s \in get_sessions : AverageId(s) \notin reports
        /\ mainPc = "save_logs" => ENABLED SaveLogsRest /\ ~ENABLED SaveLogs
        /\ mainPc = "done" => DOMAIN logs = TaskIds /\ exit # "running"

C26_Witness ==
    /\ cfg.task_is_rest
    /\ mainPc = "done"
    /\ \E t \in TaskIds : logs[t].success
    /\ \E t \in TaskIds : ReportId(t[1], t[2]) \in reports

C28_SourceEstimatesOfConditionsWithFile ==
    \A t \in TaskIds :
        /\ (tasks[t].trans = "present"
              /\ tasks[t].pc \in {"Source", "Finalized", "Saved"}) =>
              /\ \A i \in 1..Len(Conditions) :
                    Item("Source", Conditions[i]) \in SeqRange(tasks[t].doc)
                    <=> SourceTitles[i] \notin tasks[t].omitted
              /\ \A i \in 1..Len(ContrastNames) :
                    Item("Source", ContrastNames[i])
                        \notin SeqRange(tasks[t].doc)
        /\ tasks[t].pc = "Sensor" /\ tasks[t].cov = "present" =>
              ENABLED (/\ Source(t)
                       /\ tasks'[t].pc = "Source"
                       /\ tasks'[t].trans = "present"
                       /\ SeqRange(SourceTitles) \subseteq tasks'[t].omitted)

C28_Witness ==
    \E t \in TaskIds :
        /\ tasks[t].pc = "Saved"
        /\ tasks[t].trans = "present"
        /\ Item("Source", "A") \in SeqRange(tasks[t].doc)
        /\ "Source: B" \in tasks[t].omitted

\* C29: add_event_counts never fails the grand-average call.  From the state
\* in which it is called the call cannot end in a failure; afterwards, as
\* long as the call has not failed later, the document holds no 'Event
\* counts' item when the warning was logged, and otherwise exactly one, as
\* its first item.
C29_EventCountsNeverFail ==
    /\ avg.pc = "Created" =>
          /\ ENABLED AvgEventCounts
          /\ ~ENABLED (AvgEventCounts /\ avg'.pc # "Events")
    /\ avg.pc \notin {"Idle", "Created", "Failed"} =>
          LET counts == { i \in 1..Len(avg.doc) :
                            avg.doc[i].title = "Event counts" }
          IN  IF avg.warned THEN counts = {} ELSE counts = {1}
    /\ avg.pc \in {"Idle", "Created"} => ~avg.warned

C29_Witness ==
    /\ avg.pc = "Saved"
    /\ avg.warned
    /\ Len(avg.doc) > Len(SystemInfoItems)

=============================================================================
